---- MODULE Spec2Model ----
(***************************************************************************)
(* Model of trafficgo/model/ProcessingThreadModel.py: the processing       *)
(* thread of one video source.  The run loop (run), the rate estimator     *)
(* (updateFPS) and the controller operations (stop, setROI,                *)
(* updateImageProcessingFlags, updateImageProcessingSettings,              *)
(* getCurrentROI) are translated statement by statement; every statement   *)
(* that another thread can interleave with is a step of its own.           *)
(***************************************************************************)
EXTENDS Integers, Sequences, FiniteSets, TLC

(***************************************************************************)
(* Bounds of the model.                                                    *)
(***************************************************************************)
\* Window length of the rate estimator.  The program takes it from
\* src.utils.Config (not part of the sources at hand, 32 in the documented
\* scenario); the model runs a short window.
PROCESSING_FPS_STAT_QUEUE_LENGTH == 3
\* Number of updateFPS calls of the estimator specification.
MaxSamples == 7
\* Number of controller calls (stop, setROI, update..., getCurrentROI).
MaxCalls == 2
\* Number of times the thread is started.
MaxRuns == 2

N == PROCESSING_FPS_STAT_QUEUE_LENGTH

(***************************************************************************)
(* Exact fractions: Python's true division 1000 / timeElapsed and          *)
(* fpsSum / N, kept as reduced fractions [n, d].                           *)
(***************************************************************************)
RECURSIVE GCD(_, _)
GCD(a, b) == IF b = 0 THEN a ELSE GCD(b, a % b)

Frac(n, d) == LET g == GCD(n, d) IN [n |-> n \div g, d |-> d \div g]

FracAdd(p, q) == Frac(p.n * q.d + q.n * p.d, p.d * q.d)

FracDivInt(p, k) == Frac(p.n, p.d * k)

Zero == Frac(0, 1)

(***************************************************************************)
(* updateFPS (lines 137-158) as a function of the estimator's fields.      *)
(* The field `published' counts the assignments of line 154; it is the     *)
(* only field the program does not have.                                   *)
(***************************************************************************)
\* 1000 / timeElapsed (line 140)
Rate(timeElapsed) == Frac(1000, timeElapsed)

\* while not self.fps.empty(): self.fpsSum += self.fps.get()  (lines 151-152)
RECURSIVE DrainSum(_, _)
DrainSum(q, acc) == IF q = <<>> THEN acc ELSE DrainSum(Tail(q), FracAdd(acc, Head(q)))

\* PutSample with the increment of line 142 outside the test of line 139.
PutSample_CountsAll(e, timeElapsed) ==
    IF timeElapsed > 0
    THEN [e EXCEPT !.fps = Append(@, Rate(timeElapsed)),
                   !.sampleNumber = @ + 1]
    ELSE [e EXCEPT !.sampleNumber = @ + 1]

\* lines 139-142
PutSample(e, timeElapsed) ==
    IF timeElapsed > 0
    THEN [e EXCEPT !.fps = Append(@, Rate(timeElapsed)),
                   !.sampleNumber = @ + 1]
    ELSE e

\* lines 145-146
Evict(e) == IF Len(e.fps) > N THEN [e EXCEPT !.fps = Tail(@)] ELSE e

\* Publish without the reset of line 158.
Publish_NoReset(e) ==
    IF Len(e.fps) = N /\ e.sampleNumber = N
    THEN [e EXCEPT !.fps = <<>>,
                   !.averageFPS = FracDivInt(DrainSum(e.fps, e.fpsSum), N),
                   !.fpsSum = Zero,
                   !.published = @ + 1]
    ELSE e

\* Publish without the reset of line 156.
Publish_KeepSum(e) ==
    IF Len(e.fps) = N /\ e.sampleNumber = N
    THEN [e EXCEPT !.fps = <<>>,
                   !.averageFPS = FracDivInt(DrainSum(e.fps, e.fpsSum), N),
                   !.fpsSum = DrainSum(e.fps, e.fpsSum),
                   !.sampleNumber = 0,
                   !.published = @ + 1]
    ELSE e

\* lines 149-158
Publish(e) ==
    IF Len(e.fps) = N /\ e.sampleNumber = N
    THEN [e EXCEPT !.fps = <<>>,
                   !.averageFPS = FracDivInt(DrainSum(e.fps, e.fpsSum), N),
                   !.fpsSum = Zero,
                   !.sampleNumber = 0,
                   !.published = @ + 1]
    ELSE e

updateFPS(e, timeElapsed) == Publish(Evict(PutSample(e, timeElapsed)))

(***************************************************************************)
(* QRect: Qt keeps a rectangle as its corners x1, y1, x2, y2.  setX and    *)
(* setY move the left/top edge and keep the opposite edge, setWidth and    *)
(* setHeight move the right/bottom edge.                                   *)
(***************************************************************************)
\* QRect()  (line 32): the null rectangle, width() = height() = 0
NullRect == [x1 |-> 0, y1 |-> 0, x2 |-> -1, y2 |-> -1]

\* QRect(x, y, w, h)  (line 201)
QRect(x, y, w, h) == [x1 |-> x, y1 |-> y, x2 |-> x + w - 1, y2 |-> y + h - 1]

RectX(r) == r.x1
RectY(r) == r.y1
RectWidth(r) == r.x2 - r.x1 + 1
RectHeight(r) == r.y2 - r.y1 + 1

SetX(r, x) == [r EXCEPT !.x1 = x]
SetY(r, y) == [r EXCEPT !.y1 = y]
SetWidth(r, w) == [r EXCEPT !.x2 = r.x1 + w - 1]
SetHeight(r, h) == [r EXCEPT !.y2 = r.y1 + h - 1]

(***************************************************************************)
(* Images.  A Mat is [shape, px, ops, base]: numpy's shape tuple, the grid  *)
(* of pixel identities cut from the source frame, the OpenCV calls         *)
(* applied to that grid, in order, and whose memory the array uses: its    *)
(* own ("none") or, for a view, the source frame's ("source").  The        *)
(* OpenCV primitives are left uninterpreted: two Mats are equal when the   *)
(* same calls were applied to the same pixels.                             *)
(***************************************************************************)
\* Height and width of the frames the source delivers.
FrameH == 2
FrameW == 2

\* A colour frame (h, w, 3) and a single-channel frame (h, w).
ColourFrame == [shape |-> <<FrameH, FrameW, 3>>,
                px |-> [i \in 1..FrameH |-> [j \in 1..FrameW |-> (i - 1) * FrameW + j]],
                ops |-> <<>>, base |-> "none"]
GrayFrame == [shape |-> <<FrameH, FrameW>>,
              px |-> [i \in 1..FrameH |-> [j \in 1..FrameW |-> 10 + (i - 1) * FrameW + j]],
              ops |-> <<>>, base |-> "none"]
Frames == {ColourFrame, GrayFrame}

\* The shared buffer's entry for the device: <<frame>>, the latest frame, or
\* <<>> when there is none (get() then returns None).
NotReady == <<>>

\* A Python slice a[start:stop] of a sequence: negative bounds count from
\* the end, both bounds are clamped to the sequence, an inverted range is
\* empty.
SliceBound(k, len) == IF k < 0 THEN (IF k + len < 0 THEN 0 ELSE k + len)
                      ELSE IF k > len THEN len ELSE k

Slice(a, start, stop) ==
    LET lo == SliceBound(start, Len(a))
        hi == SliceBound(stop, Len(a))
    IN  IF lo < hi THEN SubSeq(a, lo + 1, hi) ELSE <<>>

\* mat[y:(y + height), x:(x + width)]: basic slicing gives a view, an array
\* that uses the memory of mat
View(mat, roi) ==
    LET rows == Slice(mat.px, RectY(roi), RectY(roi) + RectHeight(roi))
        cols == Slice(mat.px[1], RectX(roi), RectX(roi) + RectWidth(roi))
        px   == [i \in 1..Len(rows) |->
                   Slice(rows[i], RectX(roi), RectX(roi) + RectWidth(roi))]
    IN  [shape |-> <<Len(rows), Len(cols)>> \o SubSeq(mat.shape, 3, Len(mat.shape)),
         px |-> px,
         ops |-> mat.ops,
         base |-> "source"]

\* ndarray.copy(): the same content in memory of its own
Copy(mat) == [mat EXCEPT !.base = "none"]

\* The crop without the copy of line 61.
Crop_View(mat, roi) == View(mat, roi)

\* mat[y:(y + height), x:(x + width)].copy()  (lines 59-61)
Crop(mat, roi) == Copy(View(mat, roi))

IsEmpty(mat) == mat.shape[1] = 0 \/ mat.shape[2] = 0

(***************************************************************************)
(* Flags and settings (ImageProcessingFlags, ImageProcessingSettings).     *)
(***************************************************************************)
FlagNames == <<"grayscaleOn", "smoothOn", "dilateOn", "erodeOn", "flipOn",
               "cannyOn", "speedOn">>

SettingNames == <<"smoothType", "smoothParam1", "smoothParam2", "smoothParam3",
                  "smoothParam4", "dilateNumberOfIterations",
                  "erodeUrlOfIterations", "flipCode", "cannyThreshold1",
                  "cannyThreshold2", "cannyApertureSize", "cannyL2gradient">>

Range(f) == {f[i] : i \in DOMAIN f}

\* ImageProcessingFlags()  (line 33): every flag off
InitFlags == [f \in Range(FlagNames) |-> FALSE]

\* ImageProcessingSettings()  (line 34): box blur 3x3, one iteration
InitSettings ==
    [smoothType |-> 0, smoothParam1 |-> 3, smoothParam2 |-> 3,
     smoothParam3 |-> 0, smoothParam4 |-> 0,
     dilateNumberOfIterations |-> 1, erodeUrlOfIterations |-> 1,
     flipCode |-> 0, cannyThreshold1 |-> 10, cannyThreshold2 |-> 30,
     cannyApertureSize |-> 3, cannyL2gradient |-> FALSE]

(***************************************************************************)
(* The steps of the pipeline (lines 67-122).  Each step has a predicate    *)
(* saying when the statement raises and a function giving the frame it     *)
(* leaves in self.currentFrame.                                            *)
(***************************************************************************)
\* An OpenCV function that draws into the array it is given.
InPlace(mat, op, args) == [mat EXCEPT !.ops = Append(@, [op |-> op, args |-> args])]

\* An OpenCV function called without dst: the result is a new array.
Call(mat, op, args) == Copy(InPlace(mat, op, args))

\* self.currentFrame.shape[2]: IndexError on a two-dimensional array
HasChannels(mat) == Len(mat.shape) >= 3

\* lines 68-69; `and' evaluates shape[2] only when the flag is on
GrayRaises(mat, flags) ==
    flags.grayscaleOn /\ (~HasChannels(mat) \/ IsEmpty(mat))

GrayApplies(mat, flags) ==
    flags.grayscaleOn /\ HasChannels(mat) /\ (mat.shape[3] = 3 \/ mat.shape[3] = 4)

\* lines 68-71
GrayStep(mat, flags) ==
    IF GrayApplies(mat, flags)
    THEN [Call(mat, "cvtColor COLOR_BGR2GRAY", <<>>) EXCEPT !.shape = SubSeq(@, 1, 2)]
    ELSE mat

\* OpenCV: a Gaussian kernel size is positive and odd, or zero with a sigma;
\* a median kernel size is odd and greater than 1; a box size is positive.
Odd(k) == k > 0 /\ k % 2 = 1
GaussKernelOK(k, sigma) == Odd(k) \/ (k = 0 /\ sigma > 0)
MedianKernelOK(k) == Odd(k) /\ k > 1

\* lines 74-90
SmoothRaises(mat, flags, st) ==
    /\ flags.smoothOn
    /\ \/ st.smoothType = 0 /\ (st.smoothParam1 <= 0 \/ st.smoothParam2 <= 0)
       \/ st.smoothType = 1 /\ ~(/\ GaussKernelOK(st.smoothParam1, st.smoothParam3)
                                 /\ GaussKernelOK(st.smoothParam2, st.smoothParam4))
       \/ st.smoothType = 2 /\ ~MedianKernelOK(st.smoothParam1)

SmoothStep(mat, flags, st) ==
    IF ~flags.smoothOn THEN mat
    ELSE IF st.smoothType = 0
         THEN Call(mat, "blur", <<st.smoothParam1, st.smoothParam2>>)
    ELSE IF st.smoothType = 1
         THEN Call(mat, "GaussianBlur", <<st.smoothParam1, st.smoothParam2,
                                          st.smoothParam3, st.smoothParam4>>)
    ELSE IF st.smoothType = 2
         THEN Call(mat, "medianBlur", <<st.smoothParam1>>)
    ELSE mat

\* lines 93-95
DilateStep(mat, flags, st) ==
    IF flags.dilateOn THEN Call(mat, "dilate", <<st.dilateNumberOfIterations>>) ELSE mat

\* Lines 97-99 eroding twice.
ErodeStep_Twice(mat, flags, st) ==
    IF flags.erodeOn
    THEN Call(Call(mat, "erode", <<st.erodeUrlOfIterations>>),
              "erode", <<st.erodeUrlOfIterations>>)
    ELSE mat

\* lines 97-99
ErodeStep(mat, flags, st) ==
    IF flags.erodeOn THEN Call(mat, "erode", <<st.erodeUrlOfIterations>>) ELSE mat

\* FlipStep without the test of line 101.
FlipStep_Unguarded(mat, flags, st) == Call(mat, "flip", <<st.flipCode>>)

\* lines 101-103
FlipStep(mat, flags, st) ==
    IF flags.flipOn THEN Call(mat, "flip", <<st.flipCode>>) ELSE mat

\* lines 105-110; Canny returns a single-channel edge map
CannyStep(mat, flags, st) ==
    IF flags.cannyOn
    THEN [Call(mat, "Canny", <<st.cannyThreshold1, st.cannyThreshold2,
                               st.cannyApertureSize,
                               IF st.cannyL2gradient THEN 1 ELSE 0>>)
            EXCEPT !.shape = SubSeq(@, 1, 2)]
    ELSE mat

\* lines 113-115; putText draws into self.currentFrame and returns it
SpeedStep(mat, flags) ==
    IF flags.speedOn THEN InPlace(mat, "putText Speed estimation", <<>>) ELSE mat

\* The buffer's entry after lines 113-115: what putText draws into a view
\* of the frame src lands in that frame, if the buffer still holds it.
SourceAfterSpeed(mat, flags, src, buf) ==
    IF flags.speedOn /\ mat.base = "source" /\ buf = src /\ buf # <<>>
    THEN <<SpeedStep(buf[1], flags)>>
    ELSE buf

\* matToQImage(self.currentFrame)  (line 122): the frame in the
\* representation of the consumer
matToQImage(mat) == [qimage |-> mat]

\* lines 67-115 on one frame with one set of flags and settings; defined
\* where no step raises
Pipeline(mat, flags, st) ==
    LET m1 == GrayStep(mat, flags)
        m2 == SmoothStep(m1, flags, st)
        m3 == DilateStep(m2, flags, st)
        m4 == ErodeStep(m3, flags, st)
        m5 == FlipStep(m4, flags, st)
        m6 == CannyStep(m5, flags, st)
    IN  SpeedStep(m6, flags)

(***************************************************************************)
(* Inputs of the controller operations.                                    *)
(***************************************************************************)
AllOff == InitFlags
AllOn == [f \in Range(FlagNames) |-> TRUE]
FlipSpeed == [InitFlags EXCEPT !.flipOn = TRUE, !.speedOn = TRUE]
FlagArgs == {AllOn, FlipSpeed}

GaussSettings ==
    [smoothType |-> 1, smoothParam1 |-> 5, smoothParam2 |-> 5,
     smoothParam3 |-> 1, smoothParam4 |-> 1,
     dilateNumberOfIterations |-> 2, erodeUrlOfIterations |-> 2,
     flipCode |-> 1, cannyThreshold1 |-> 50, cannyThreshold2 |-> 100,
     cannyApertureSize |-> 5, cannyL2gradient |-> TRUE]
\* a median blur with an even kernel size, which OpenCV refuses
MedianEven == [InitSettings EXCEPT !.smoothType = 2, !.smoothParam1 = 4]
SettingsArgs == {GaussSettings, MedianEven}

RightROI == QRect(1, 0, FrameW - 1, FrameH)
\* as wide as the frame but starting at column 1: one column too far
WideROI == QRect(1, 0, FrameW, FrameH)
ROIArgs == {RightROI, WideROI}

\* elapsed milliseconds the timer can report once started
Elapsed == {0, 20}

Ctl == {"c1", "c2"}
Free == "free"
Worker == "run"

(***************************************************************************)
(* State.                                                                  *)
(***************************************************************************)
VARIABLES
    pc,                \* where the run loop is
    raised,            \* the exception that ended run(), or "none"
    doStop, doStopMutex, processingMutex,
    tStarted,          \* whether self.t has been started
    processingTime,
    sharedImageBuffer, \* the buffer's entry for this device
    currentROI, imgProcFlags, imgProcSettings,
    currentFrame, frame,
    fps, sampleNumber, fpsSum, statsData,
    cop, cstep, carg, cloc,   \* controller threads: operation, step, argument, locals
    calls, runs,
    \* history
    published,         \* number of assignments to statsData.averageFPS
    hist,              \* arguments of the updateFPS calls so far
    snap,              \* configuration when the loop took the processing lock
    srcRead,           \* source frame read in this iteration
    stopPending,       \* a stop() has returned during this run
    framesAfterStop, statsAfterStop,
    roiCall,           \* the last completed setROI: argument, ROI before, ROI after
    lastGot,           \* the last result of getCurrentROI
    cfgCall,           \* the last completed flags or settings update:
                       \* operation, argument, configuration before and after
    exitLog            \* what run() has done since it left the loop

estVars == <<fps, sampleNumber, fpsSum, statsData, published, hist>>
cfgVars == <<currentROI, imgProcFlags, imgProcSettings>>
ctlVars == <<cop, cstep, carg, cloc, calls>>
stopVars == <<stopPending, framesAfterStop, statsAfterStop>>
vars == <<pc, raised, doStop, doStopMutex, processingMutex, tStarted,
          processingTime, sharedImageBuffer, currentROI, imgProcFlags,
          imgProcSettings, currentFrame, frame, fps, sampleNumber, fpsSum,
          statsData, cop, cstep, carg, cloc, calls, runs, published, hist,
          snap, srcRead, stopPending, framesAfterStop, statsAfterStop,
          roiCall, lastGot, cfgCall, exitLog>>

\* self.currentFrame = None, self.frame = None  (lines 36-37): no image
None == [shape |-> <<>>, px |-> <<>>, ops |-> <<>>, base |-> "none"]
NoImage == [qimage |-> None]
\* An optional value (an argument, a local, a history value) is <<>> or
\* <<value>>.
Nothing == <<>>

\* __init__  (lines 16-37)
Init ==
    /\ pc = "Idle"
    /\ raised = "none"
    /\ doStop = FALSE
    /\ doStopMutex = Free
    /\ processingMutex = Free
    /\ tStarted = FALSE
    /\ processingTime = 0
    /\ sharedImageBuffer = NotReady
    /\ currentROI = NullRect
    /\ imgProcFlags = InitFlags
    /\ imgProcSettings = InitSettings
    /\ currentFrame = None
    /\ frame = NoImage
    /\ fps = <<>>
    /\ sampleNumber = 0
    /\ fpsSum = Zero
    /\ statsData = [nFramesProcessed |-> 0, averageFPS |-> Zero]
    /\ cop = [c \in Ctl |-> "idle"]
    /\ cstep = [c \in Ctl |-> 0]
    /\ carg = [c \in Ctl |-> Nothing]
    /\ cloc = [c \in Ctl |-> Nothing]
    /\ calls = 0
    /\ runs = 0
    /\ published = 0
    /\ hist = <<>>
    /\ snap = Nothing
    /\ srcRead = Nothing
    /\ stopPending = FALSE
    /\ framesAfterStop = 0
    /\ statsAfterStop = 0
    /\ roiCall = Nothing
    /\ lastGot = Nothing
    /\ cfgCall = Nothing
    /\ exitLog = <<>>

(***************************************************************************)
(* The run loop (lines 39-131).                                            *)
(***************************************************************************)
Bump(n) == IF n < 2 THEN n + 1 ELSE n

Config == [roi |-> currentROI, flags |-> imgProcFlags, settings |-> imgProcSettings]

\* QMutex.lock() returns once the mutex is free
CanLock(mutex) == mutex = Free

\* QThread.start(): run() begins on the worker thread
Start ==
    /\ pc \in {"Idle", "Stopped"}
    /\ runs < MaxRuns
    /\ runs' = runs + 1
    /\ pc' = "CheckStop"
    /\ stopPending' = FALSE
    /\ framesAfterStop' = 0
    /\ statsAfterStop' = 0
    /\ exitLog' = <<>>
    /\ UNCHANGED <<raised, doStop, doStopMutex, processingMutex, tStarted,
                   processingTime, sharedImageBuffer, cfgVars, currentFrame,
                   frame, estVars, ctlVars, snap, srcRead, roiCall,
                   lastGot, cfgCall>>

\* An entry of exitLog: the step taken, the number of updateFPS calls and
\* the statistics after it.
Log(what, samples, stats) ==
    exitLog' = Append(exitLog, [ev |-> what, samples |-> samples,
                                frames |-> stats.nFramesProcessed])

\* line 44
LockStop ==
    /\ pc = "CheckStop"
    /\ CanLock(doStopMutex)
    /\ doStopMutex' = Worker
    /\ pc' = "TestStop"
    /\ UNCHANGED <<raised, doStop, processingMutex, tStarted, processingTime,
                   sharedImageBuffer, cfgVars, currentFrame, frame, estVars,
                   ctlVars, runs, snap, srcRead, stopVars, roiCall,
                   lastGot, cfgCall, exitLog>>

\* Lines 45-49 without the unlock of line 49.
TestStop_KeepLocked ==
    /\ pc = "TestStop"
    /\ IF doStop
       THEN /\ doStop' = FALSE /\ pc' = "FinalFPS"
            /\ Log("clear", Len(hist), statsData)
            /\ doStopMutex' = Free
       ELSE /\ doStop' = doStop /\ pc' = "Timing"
            /\ UNCHANGED <<exitLog, doStopMutex>>
    /\ UNCHANGED <<raised, processingMutex, tStarted, processingTime,
                   sharedImageBuffer, cfgVars, currentFrame, frame, estVars,
                   ctlVars, runs, snap, srcRead, stopVars, roiCall,
                   lastGot, cfgCall>>

\* lines 45-49
TestStop ==
    /\ pc = "TestStop"
    /\ IF doStop
       THEN doStop' = FALSE /\ pc' = "FinalFPS" /\ Log("clear", Len(hist), statsData)
       ELSE doStop' = doStop /\ pc' = "Timing" /\ UNCHANGED exitLog
    /\ doStopMutex' = Free
    /\ UNCHANGED <<raised, processingMutex, tStarted, processingTime,
                   sharedImageBuffer, cfgVars, currentFrame, frame, estVars,
                   ctlVars, runs, snap, srcRead, stopVars, roiCall,
                   lastGot, cfgCall>>

\* lines 54-56: QTime.elapsed() is 0 until the timer has been started
Timing ==
    /\ pc = "Timing"
    /\ \E ms \in Elapsed :
          processingTime' = IF tStarted THEN ms ELSE 0
    /\ tStarted' = TRUE
    /\ pc' = "LockProc"
    /\ UNCHANGED <<raised, doStop, doStopMutex, processingMutex,
                   sharedImageBuffer, cfgVars, currentFrame, frame, estVars,
                   ctlVars, runs, snap, srcRead, stopVars, roiCall,
                   lastGot, cfgCall, exitLog>>

\* Line 58 without the mutex: the block runs unlocked.
LockProc_NoLock ==
    /\ pc = "LockProc"
    /\ snap' = <<Config>>
    /\ pc' = "Read"
    /\ UNCHANGED <<raised, doStop, doStopMutex, processingMutex, tStarted,
                   processingTime, sharedImageBuffer, cfgVars, currentFrame,
                   frame, estVars, ctlVars, runs, srcRead, stopVars, roiCall,
                   lastGot, cfgCall, exitLog>>

\* line 58
LockProc ==
    /\ pc = "LockProc"
    /\ CanLock(processingMutex)
    /\ processingMutex' = Worker
    /\ snap' = <<Config>>
    /\ pc' = "Read"
    /\ UNCHANGED <<raised, doStop, doStopMutex, tStarted, processingTime,
                   sharedImageBuffer, cfgVars, currentFrame, frame, estVars,
                   ctlVars, runs, srcRead, stopVars, roiCall,
                   lastGot, cfgCall, exitLog>>

\* An exception leaves the `with' block (the locker releases the mutex)
\* and run(): nothing in run catches it.
Raise(kind) ==
    /\ pc' = "Crashed"
    /\ raised' = kind
    /\ processingMutex' = Free
    /\ snap' = Nothing
    /\ srcRead' = Nothing
    /\ currentFrame' = None
    /\ UNCHANGED <<doStop, doStopMutex, tStarted, processingTime,
                   sharedImageBuffer, cfgVars, frame, estVars,
                   ctlVars, runs, stopVars, roiCall, lastGot, cfgCall, exitLog>>

\* One statement of the `with' block that computes self.currentFrame.
Stmt(next, mat) ==
    /\ pc' = next
    /\ currentFrame' = mat
    /\ UNCHANGED <<raised, doStop, doStopMutex, processingMutex, tStarted,
                   processingTime, cfgVars, frame, estVars,
                   ctlVars, runs, snap, stopVars, roiCall,
                   lastGot, cfgCall, exitLog>>

\* lines 59-61: subscripting None raises TypeError
Read ==
    /\ pc = "Read"
    /\ IF sharedImageBuffer = NotReady
       THEN Raise("TypeError")
       ELSE /\ Stmt("Gray", Crop(sharedImageBuffer[1], currentROI))
            /\ srcRead' = sharedImageBuffer
            /\ UNCHANGED sharedImageBuffer

\* lines 68-71
Gray ==
    /\ pc = "Gray"
    /\ IF GrayRaises(currentFrame, imgProcFlags)
       THEN Raise(IF HasChannels(currentFrame) THEN "cv2.error" ELSE "IndexError")
       ELSE /\ Stmt("Smooth", GrayStep(currentFrame, imgProcFlags))
            /\ UNCHANGED <<srcRead, sharedImageBuffer>>

\* lines 74-90
Smooth ==
    /\ pc = "Smooth"
    /\ IF SmoothRaises(currentFrame, imgProcFlags, imgProcSettings)
       THEN Raise("cv2.error")
       ELSE /\ Stmt("Dilate", SmoothStep(currentFrame, imgProcFlags, imgProcSettings))
            /\ UNCHANGED <<srcRead, sharedImageBuffer>>

\* lines 93-95
Dilate ==
    /\ pc = "Dilate"
    /\ Stmt("Erode", DilateStep(currentFrame, imgProcFlags, imgProcSettings))
    /\ UNCHANGED <<srcRead, sharedImageBuffer>>

\* lines 97-99
Erode ==
    /\ pc = "Erode"
    /\ Stmt("Flip", ErodeStep(currentFrame, imgProcFlags, imgProcSettings))
    /\ UNCHANGED <<srcRead, sharedImageBuffer>>

\* lines 101-103
Flip ==
    /\ pc = "Flip"
    /\ Stmt("Canny", FlipStep(currentFrame, imgProcFlags, imgProcSettings))
    /\ UNCHANGED <<srcRead, sharedImageBuffer>>

\* lines 105-110
Canny ==
    /\ pc = "Canny"
    /\ Stmt("Speed", CannyStep(currentFrame, imgProcFlags, imgProcSettings))
    /\ UNCHANGED <<srcRead, sharedImageBuffer>>

\* lines 113-115
Speed ==
    /\ pc = "Speed"
    /\ Stmt("Convert", SpeedStep(currentFrame, imgProcFlags))
    /\ sharedImageBuffer' = SourceAfterSpeed(currentFrame, imgProcFlags,
                                             srcRead, sharedImageBuffer)
    /\ UNCHANGED srcRead

\* line 122
Convert ==
    /\ pc = "Convert"
    /\ frame' = matToQImage(currentFrame)
    /\ pc' = "Emit"
    /\ UNCHANGED <<raised, doStop, doStopMutex, processingMutex, tStarted,
                   processingTime, sharedImageBuffer, cfgVars, currentFrame,
                   estVars, ctlVars, runs, snap, srcRead, stopVars, roiCall,
                   lastGot, cfgCall, exitLog>>

\* line 125, and the end of the `with' block.  self.currentFrame and
\* self.frame are not read again before lines 59 and 122 overwrite them:
\* the model forgets them here.
Emit ==
    /\ pc = "Emit"
    /\ framesAfterStop' = IF stopPending THEN Bump(framesAfterStop) ELSE framesAfterStop
    /\ processingMutex' = Free
    /\ snap' = Nothing
    /\ srcRead' = Nothing
    /\ pc' = "CheckStop"
    /\ currentFrame' = None
    /\ frame' = NoImage
    /\ UNCHANGED <<raised, doStop, doStopMutex, tStarted, processingTime,
                   sharedImageBuffer, cfgVars, estVars,
                   ctlVars, runs, stopPending, statsAfterStop, roiCall,
                   lastGot, cfgCall, exitLog>>

Est == [fps |-> fps, sampleNumber |-> sampleNumber, fpsSum |-> fpsSum,
        averageFPS |-> statsData.averageFPS, published |-> published]

\* self.updateFPS(timeElapsed): the estimator's fields after the call
CallUpdateFPS(timeElapsed) ==
    LET e == updateFPS(Est, timeElapsed)
    IN  /\ fps' = e.fps
        /\ sampleNumber' = e.sampleNumber
        /\ fpsSum' = e.fpsSum
        /\ statsData' = [statsData EXCEPT !.averageFPS = e.averageFPS]
        /\ published' = e.published
        /\ hist' = Append(hist, timeElapsed)

\* line 127
FinalFPS ==
    /\ pc = "FinalFPS"
    /\ CallUpdateFPS(processingTime)
    /\ Log("sample", Len(hist'), statsData')
    /\ pc' = "Count"
    /\ UNCHANGED <<raised, doStop, doStopMutex, processingMutex, tStarted,
                   processingTime, sharedImageBuffer, cfgVars, currentFrame,
                   frame, ctlVars, runs, snap, srcRead, stopVars, roiCall,
                   lastGot, cfgCall>>

\* Line 128 counting the frame twice.
Count_Twice ==
    /\ pc = "Count"
    /\ statsData' = [statsData EXCEPT !.nFramesProcessed = @ + 2]
    /\ Log("count", Len(hist), statsData')
    /\ pc' = "EmitStats"
    /\ UNCHANGED <<raised, doStop, doStopMutex, processingMutex, tStarted,
                   processingTime, sharedImageBuffer, cfgVars, currentFrame,
                   frame, fps, sampleNumber, fpsSum, published, hist, ctlVars,
                   runs, snap, srcRead, stopVars, roiCall, lastGot, cfgCall>>

\* line 128
Count ==
    /\ pc = "Count"
    /\ statsData' = [statsData EXCEPT !.nFramesProcessed = @ + 1]
    /\ Log("count", Len(hist), statsData')
    /\ pc' = "EmitStats"
    /\ UNCHANGED <<raised, doStop, doStopMutex, processingMutex, tStarted,
                   processingTime, sharedImageBuffer, cfgVars, currentFrame,
                   frame, fps, sampleNumber, fpsSum, published, hist, ctlVars,
                   runs, snap, srcRead, stopVars, roiCall,
                   lastGot, cfgCall>>

\* lines 129-131
EmitStats ==
    /\ pc = "EmitStats"
    /\ statsAfterStop' = IF stopPending THEN Bump(statsAfterStop) ELSE statsAfterStop
    /\ Log("stats", Len(hist), statsData)
    /\ pc' = "Stopped"
    /\ UNCHANGED <<raised, doStop, doStopMutex, processingMutex, tStarted,
                   processingTime, sharedImageBuffer, cfgVars, currentFrame,
                   frame, estVars, ctlVars, runs, snap, srcRead, stopPending,
                   framesAfterStop, roiCall, lastGot, cfgCall>>

Run ==
    \/ LockStop \/ TestStop \/ Timing \/ LockProc \/ Read \/ Gray \/ Smooth
    \/ Dilate \/ Erode \/ Flip \/ Canny \/ Speed \/ Convert \/ Emit
    \/ FinalFPS \/ Count \/ EmitStats

\* The producer side of the shared buffer: a new latest frame, or none.
\* Only the read of lines 59-61 looks at the entry, so the producer is let
\* in where the run loop is at that read or waits for the mutex before it:
\* a write made earlier has the effect of the same write made there.
Produce ==
    /\ pc \in {"LockProc", "Read"}
    /\ \E b \in {<<f>> : f \in Frames} \cup {NotReady} :
          /\ b # sharedImageBuffer
          /\ sharedImageBuffer' = b
    /\ UNCHANGED <<pc, raised, doStop, doStopMutex, processingMutex, tStarted,
                   processingTime, cfgVars, currentFrame, frame, estVars,
                   ctlVars, runs, snap, srcRead, stopVars, roiCall,
                   lastGot, cfgCall, exitLog>>

(***************************************************************************)
(* Controller operations (lines 160-201), called from the threads Ctl.     *)
(* cop[c] is the operation thread c is in, cstep[c] the number of its      *)
(* statements already executed, carg[c] its argument.                      *)
(***************************************************************************)
Alive == pc \notin {"Idle", "Stopped", "Crashed"}

Return(c) ==
    /\ cop' = [cop EXCEPT ![c] = "idle"]
    /\ cstep' = [cstep EXCEPT ![c] = 0]
    /\ carg' = [carg EXCEPT ![c] = Nothing]
    /\ cloc' = [cloc EXCEPT ![c] = Nothing]

Advance(c) ==
    /\ cstep' = [cstep EXCEPT ![c] = @ + 1]
    /\ UNCHANGED <<cop, carg>>

\* A controller thread enters one of the operations.
Invoke(c) ==
    /\ cop[c] = "idle"
    /\ calls < MaxCalls
    /\ calls' = calls + 1
    /\ \E op \in {"stop", "setROI", "updateImageProcessingFlags",
                  "updateImageProcessingSettings", "getCurrentROI"} :
          /\ cop' = [cop EXCEPT ![c] = op]
          /\ \E a \in (CASE op = "setROI" -> {<<r>> : r \in ROIArgs}
                         [] op = "updateImageProcessingFlags" ->
                               {<<f>> : f \in FlagArgs}
                         [] op = "updateImageProcessingSettings" ->
                               {<<st>> : st \in SettingsArgs}
                         [] OTHER -> {Nothing}) :
                carg' = [carg EXCEPT ![c] = a]
    /\ UNCHANGED <<cstep, cloc>>
    /\ UNCHANGED <<pc, raised, doStop, doStopMutex, processingMutex, tStarted,
                   processingTime, sharedImageBuffer, cfgVars, currentFrame,
                   frame, estVars, runs, snap, srcRead, stopVars, roiCall,
                   lastGot, cfgCall, exitLog>>

\* line 161: QMutexLocker(self.doStopMutex)
StopLock(c) ==
    /\ cop[c] = "stop" /\ cstep[c] = 0
    /\ CanLock(doStopMutex)
    /\ doStopMutex' = c
    /\ Advance(c)
    /\ UNCHANGED <<pc, raised, doStop, processingMutex, tStarted,
                   processingTime, sharedImageBuffer, cfgVars, currentFrame,
                   frame, estVars, cloc, calls, runs, snap, srcRead, stopVars,
                   roiCall, lastGot, cfgCall, exitLog>>

\* line 162, the end of the `with' block, and the return
StopSet(c) ==
    /\ cop[c] = "stop" /\ cstep[c] = 1
    /\ doStop' = TRUE
    /\ doStopMutex' = Free
    /\ Return(c)
    /\ stopPending' = (stopPending \/ Alive)
    /\ UNCHANGED <<pc, raised, processingMutex, tStarted, processingTime,
                   sharedImageBuffer, cfgVars, currentFrame, frame, estVars,
                   calls, runs, snap, srcRead, framesAfterStop, statsAfterStop,
                   roiCall, lastGot, cfgCall, exitLog>>

\* The operations that take the processing mutex.
Locking == {"setROI", "updateImageProcessingFlags", "updateImageProcessingSettings"}

\* ProcLock without the mutex: the operation writes its fields unlocked.
ProcLock_NoMutex(c) ==
    /\ cop[c] \in Locking /\ cstep[c] = 0
    /\ Advance(c)
    /\ cloc' = [cloc EXCEPT ![c] = <<Config>>]
    /\ UNCHANGED <<pc, raised, doStop, doStopMutex, processingMutex, tStarted,
                   processingTime, sharedImageBuffer, cfgVars, currentFrame,
                   frame, estVars, calls, runs, snap, srcRead, stopVars,
                   roiCall, lastGot, cfgCall, exitLog>>

\* lines 169, 179, 194: QMutexLocker(self.processingMutex)
ProcLock(c) ==
    /\ cop[c] \in Locking /\ cstep[c] = 0
    /\ CanLock(processingMutex)
    /\ processingMutex' = c
    /\ Advance(c)
    /\ cloc' = [cloc EXCEPT ![c] = <<Config>>]
    /\ UNCHANGED <<pc, raised, doStop, doStopMutex, tStarted, processingTime,
                   sharedImageBuffer, cfgVars, currentFrame, frame, estVars,
                   calls, runs, snap, srcRead, stopVars, roiCall,
                   lastGot, cfgCall, exitLog>>

\* The mutex after statement k of n: released with the last one.
AfterStmt(c, k, n) ==
    IF k = n
    THEN processingMutex' = Free /\ Return(c)
    ELSE processingMutex' = processingMutex /\ Advance(c) /\ UNCHANGED cloc

\* cfgCall after statement k of n of an update that leaves the
\* configuration cfg.
Done(c, k, n, cfg) ==
    cfgCall' = IF k = n
               THEN <<[op |-> cop[c], arg |-> carg[c][1],
                       before |-> cloc[c][1], after |-> cfg]>>
               ELSE cfgCall

\* lines 170-176 merging: a flag of the argument that is off leaves the
\* stored flag as it is.
FlagsWrite_Merge(c) ==
    /\ cop[c] = "updateImageProcessingFlags" /\ cstep[c] >= 1
    /\ LET k == cstep[c]
           name == FlagNames[k]
       IN  /\ imgProcFlags' = [imgProcFlags EXCEPT
                                  ![name] = @ \/ carg[c][1][name]]
           /\ Done(c, k, Len(FlagNames), [Config EXCEPT !.flags = imgProcFlags'])
           /\ AfterStmt(c, k, Len(FlagNames))
    /\ UNCHANGED <<pc, raised, doStop, doStopMutex, tStarted, processingTime,
                   sharedImageBuffer, currentROI, imgProcSettings, currentFrame,
                   frame, estVars, calls, runs, snap, srcRead, stopVars,
                   roiCall, lastGot, exitLog>>

\* lines 170-176: one assignment per step
FlagsWrite(c) ==
    /\ cop[c] = "updateImageProcessingFlags" /\ cstep[c] >= 1
    /\ LET k == cstep[c]
           name == FlagNames[k]
       IN  /\ imgProcFlags' = [imgProcFlags EXCEPT ![name] = carg[c][1][name]]
           /\ Done(c, k, Len(FlagNames), [Config EXCEPT !.flags = imgProcFlags'])
           /\ AfterStmt(c, k, Len(FlagNames))
    /\ UNCHANGED <<pc, raised, doStop, doStopMutex, tStarted, processingTime,
                   sharedImageBuffer, currentROI, imgProcSettings, currentFrame,
                   frame, estVars, calls, runs, snap, srcRead, stopVars,
                   roiCall, lastGot, exitLog>>

\* lines 180-191: one assignment per step
SettingsWrite(c) ==
    /\ cop[c] = "updateImageProcessingSettings" /\ cstep[c] >= 1
    /\ LET k == cstep[c]
           name == SettingNames[k]
       IN  /\ imgProcSettings' = [imgProcSettings EXCEPT ![name] = carg[c][1][name]]
           /\ Done(c, k, Len(SettingNames), [Config EXCEPT !.settings = imgProcSettings'])
           /\ AfterStmt(c, k, Len(SettingNames))
    /\ UNCHANGED <<pc, raised, doStop, doStopMutex, tStarted, processingTime,
                   sharedImageBuffer, currentROI, imgProcFlags, currentFrame,
                   frame, estVars, calls, runs, snap, srcRead, stopVars,
                   roiCall, lastGot, exitLog>>

\* The stored rectangle after statement k of setROI (lines 195-198).
ROIAfter(r, roi, k) ==
    CASE k = 1 -> SetX(r, RectX(roi))
      [] k = 2 -> SetY(r, RectY(roi))
      [] k = 3 -> SetWidth(r, RectWidth(roi))
      [] k = 4 -> SetHeight(r, RectHeight(roi))

\* lines 195-198: one setter per step
ROIWrite(c) ==
    /\ cop[c] = "setROI" /\ cstep[c] >= 1
    /\ LET k == cstep[c]
       IN  /\ currentROI' = ROIAfter(currentROI, carg[c][1], k)
           /\ roiCall' = IF k = 4
                         THEN <<[arg |-> carg[c][1], before |-> cloc[c][1].roi,
                                 after |-> currentROI']>>
                         ELSE roiCall
           /\ AfterStmt(c, k, 4)
    /\ UNCHANGED <<pc, raised, doStop, doStopMutex, tStarted, processingTime,
                   sharedImageBuffer, imgProcFlags, imgProcSettings,
                   currentFrame, frame, estVars, calls, runs, snap, srcRead,
                   stopVars, lastGot, cfgCall, exitLog>>

\* line 201: the four getters are read one after the other, with no mutex
ROIRead(c) ==
    /\ cop[c] = "getCurrentROI"
    /\ LET k == cstep[c] + 1
           v == CASE k = 1 -> RectX(currentROI)
                  [] k = 2 -> RectY(currentROI)
                  [] k = 3 -> RectWidth(currentROI)
                  [] k = 4 -> RectHeight(currentROI)
           got == Append(cloc[c], v)
       IN  IF k = 4
           THEN /\ lastGot' = <<QRect(got[1], got[2], got[3], got[4])>>
                /\ Return(c)
           ELSE /\ lastGot' = lastGot
                /\ cloc' = [cloc EXCEPT ![c] = got]
                /\ Advance(c)
    /\ UNCHANGED <<pc, raised, doStop, doStopMutex, processingMutex, tStarted,
                   processingTime, sharedImageBuffer, cfgVars, currentFrame,
                   frame, estVars, calls, runs, snap, srcRead, stopVars,
                   roiCall, cfgCall, exitLog>>

CtlStep(c) ==
    \/ StopLock(c) \/ StopSet(c) \/ ProcLock(c) \/ FlagsWrite(c)
    \/ SettingsWrite(c) \/ ROIWrite(c) \/ ROIRead(c)

Next ==
    \/ Start
    \/ Run
    \/ Produce
    \/ \E c \in Ctl : Invoke(c) \/ CtlStep(c)

Spec == Init /\ [][Next]_vars

\* The run-loop thread is scheduled fairly, and so is a controller thread
\* inside an operation; nothing obliges the controller to call anything.
FairSpec == Spec /\ WF_vars(Run) /\ \A c \in Ctl : WF_vars(CtlStep(c))

(***************************************************************************)
(* The estimator on its own: updateFPS applied to any sequence of elapsed  *)
(* times.                                                                  *)
(***************************************************************************)
Samples == {-5, 0, 20, 30}

FeedSample ==
    /\ Len(hist) < MaxSamples
    /\ \E timeElapsed \in Samples : CallUpdateFPS(timeElapsed)
    /\ UNCHANGED <<pc, raised, doStop, doStopMutex, processingMutex, tStarted,
                   processingTime, sharedImageBuffer, cfgVars, currentFrame,
                   frame, ctlVars, runs, snap, srcRead, stopVars, roiCall,
                   lastGot, cfgCall, exitLog>>

NextFPS == FeedSample

SpecFPS == Init /\ [][NextFPS]_vars

(***************************************************************************)
(* The run loop on its own, started under any configuration the            *)
(* controller can have stored: every subset of the flags, each smoothing   *)
(* kind, a frame of either kind in the buffer, a stop requested or not.    *)
(***************************************************************************)
AllFlagSets == [Range(FlagNames) -> BOOLEAN]

MedianSettings == [InitSettings EXCEPT !.smoothType = 2]
LoopSettings == {InitSettings, GaussSettings, MedianSettings}

FullROI == QRect(0, 0, FrameW, FrameH)
LoopROIs == {FullROI, RightROI, NullRect}

InitLoop ==
    /\ pc = "CheckStop"
    /\ raised = "none"
    /\ doStop \in BOOLEAN
    /\ doStopMutex = Free
    /\ processingMutex = Free
    /\ tStarted = FALSE
    /\ processingTime = 0
    /\ sharedImageBuffer \in {<<f>> : f \in Frames}
    /\ currentROI \in LoopROIs
    /\ imgProcFlags \in AllFlagSets
    /\ imgProcSettings \in LoopSettings
    /\ currentFrame = None
    /\ frame = NoImage
    /\ fps = <<>>
    /\ sampleNumber = 0
    /\ fpsSum = Zero
    /\ statsData = [nFramesProcessed |-> 0, averageFPS |-> Zero]
    /\ cop = [c \in Ctl |-> "idle"]
    /\ cstep = [c \in Ctl |-> 0]
    /\ carg = [c \in Ctl |-> Nothing]
    /\ cloc = [c \in Ctl |-> Nothing]
    /\ calls = 0
    /\ runs = 1
    /\ published = 0
    /\ hist = <<>>
    /\ snap = Nothing
    /\ srcRead = Nothing
    /\ stopPending = FALSE
    /\ framesAfterStop = 0
    /\ statsAfterStop = 0
    /\ roiCall = Nothing
    /\ lastGot = Nothing
    /\ cfgCall = Nothing
    /\ exitLog = <<>>

NextLoop == Run

SpecLoop == InitLoop /\ [][NextLoop]_vars

(***************************************************************************)
(* Properties.                                                             *)
(***************************************************************************)
\* The run loop is inside the `with' block of lines 58-125.
InFrame == pc \in {"Read", "Gray", "Smooth", "Dilate", "Erode", "Flip",
                   "Canny", "Speed", "Convert", "Emit"}

\* The values a whole call (or the constructor) stores.
CompleteFlags == FlagArgs \cup {InitFlags}
CompleteSettings == SettingsArgs \cup {InitSettings}
CompleteROIs == ROIArgs \cup {NullRect}

\* The rectangle lies inside the frames the source delivers.
Fits(roi) ==
    /\ RectX(roi) >= 0 /\ RectY(roi) >= 0
    /\ RectWidth(roi) >= 0 /\ RectHeight(roi) >= 0
    /\ RectX(roi) + RectWidth(roi) <= FrameW
    /\ RectY(roi) + RectHeight(roi) <= FrameH

\* The pixels of F inside the rectangle, row by row.
RawCrop(F, roi) ==
    [i \in 1..RectHeight(roi) |->
        [j \in 1..RectWidth(roi) |-> F.px[RectY(roi) + i][RectX(roi) + j]]]

\* The positive samples fed so far, and the sum of the rates of
\* samples from..to of them.
Positive(t) == t > 0
PositiveSamples == SelectSeq(hist, Positive)

RECURSIVE RateSum(_, _, _)
RateSum(seq, from, to) ==
    IF from > to THEN Zero
    ELSE FracAdd(RateSum(seq, from, to - 1), Frac(1000, seq[to]))

(***************************************************************************)
(* C5.  Batch publish: after any sequence of updateFPS calls, averageFPS   *)
(* has been assigned once per full window of N positive samples (at the    *)
(* N-th, 2N-th, ... positive sample and at no other call); it is the sum   *)
(* of the rates 1000/elapsed of the last full window divided by N, and     *)
(* still the initial value when fewer than N positive samples were fed;    *)
(* at each publish the queue is empty and the sample counter is 0.         *)
(***************************************************************************)
C5_BatchPublish ==
    LET pos == PositiveSamples
        k   == Len(pos) \div N
    IN  /\ published = k
        /\ statsData.averageFPS =
              IF k = 0 THEN Zero
              ELSE FracDivInt(RateSum(pos, (k - 1) * N + 1, k * N), N)
        /\ sampleNumber = Len(pos) % N
        /\ Len(fps) = Len(pos) % N
        /\ (\A i \in 1..Len(pos) : pos[i] = 20) /\ k > 0
              => statsData.averageFPS = Frac(50, 1)

\* Two windows have been published, with a non-positive sample among the calls.
C5_Witness ==
    /\ published = 2
    /\ Len(PositiveSamples) = 2 * N
    /\ \E i \in 1..Len(hist) : hist[i] <= 0
    /\ fps = <<>> /\ sampleNumber = 0

(***************************************************************************)
(* C6.  A call updateFPS(elapsed) with elapsed <= 0 leaves the queue, the  *)
(* sample counter, the running sum and the published average unchanged,    *)
(* whatever state the estimator is in.                                     *)
(***************************************************************************)
C6_NonPositiveIgnored ==
    [][(Len(hist') = Len(hist) + 1 /\ hist'[Len(hist')] <= 0)
          => /\ fps' = fps
             /\ sampleNumber' = sampleNumber
             /\ fpsSum' = fpsSum
             /\ statsData'.averageFPS = statsData.averageFPS
             /\ published' = published]_vars

\* A non-positive sample has just been fed to an estimator holding samples
\* and having published before.
C6_Witness ==
    /\ Len(hist) > N
    /\ hist[Len(hist)] <= 0
    /\ sampleNumber > 0
    /\ published > 0

(***************************************************************************)
(* C2.  Configuration replace is atomic with respect to frame processing:  *)
(* while the run loop is between the frame read and the frame emission,    *)
(* the ROI, flags and settings are the ones it found when it took the      *)
(* processing lock (no update takes effect in between), each of them is    *)
(* the value of one whole call (never a mix of two calls' fields), and     *)
(* the frame it emits is the pipeline applied with exactly that            *)
(* configuration to the crop of the frame it read.                         *)
(***************************************************************************)
C2_AtomicConfig ==
    InFrame =>
       /\ Len(snap) = 1
       /\ Config = snap[1]
       /\ snap[1].flags \in CompleteFlags
       /\ snap[1].settings \in CompleteSettings
       /\ snap[1].roi \in CompleteROIs
       /\ pc = "Emit" =>
             frame = matToQImage(Pipeline(Crop(srcRead[1], snap[1].roi),
                                          snap[1].flags, snap[1].settings))

\* A frame is about to be emitted under a ROI set by an earlier call while
\* a flags update waits for the processing lock.
C2_Witness ==
    /\ pc = "Emit"
    /\ snap[1].roi = RightROI
    /\ \E c \in Ctl : cop[c] = "updateImageProcessingFlags" /\ cstep[c] = 0

(***************************************************************************)
(* C10.  Identity pipeline: when all seven flags are off and the ROI fits  *)
(* within the frame read, the frame handed to the sink is the raw crop of  *)
(* that frame by the ROI, with no transform applied, whatever the          *)
(* settings are; running the all-disabled pipeline on it again, with any   *)
(* settings, changes nothing.                                              *)
(***************************************************************************)
C10_IdentityPipeline ==
    (pc = "Emit" /\ snap[1].flags = AllOff /\ Fits(snap[1].roi)) =>
       LET F   == srcRead[1]
           roi == snap[1].roi
           out == frame.qimage
       IN  /\ out.px = RawCrop(F, roi)
           /\ out.ops = <<>>
           /\ out.shape = <<RectHeight(roi), RectWidth(roi)>>
                             \o SubSeq(F.shape, 3, Len(F.shape))
           /\ \A st \in CompleteSettings : Pipeline(out, AllOff, st) = out

\* A non-empty crop of a colour frame is about to be emitted with all flags
\* off and settings other than the initial ones.
C10_Witness ==
    /\ pc = "Emit"
    /\ snap[1].flags = AllOff
    /\ snap[1].roi = RightROI
    /\ snap[1].settings = GaussSettings
    /\ srcRead = <<ColourFrame>>
    /\ frame.qimage.px[1][1] = ColourFrame.px[1][2]

(***************************************************************************)
(* C1.  Stop semantics: once a stop() has returned during a run, the       *)
(* worker emits at most one more frame, and when its thread has ended      *)
(* exactly one statistics emission has followed the stop.  (Stated for     *)
(* the runs in which the source always had a frame; the missing frame is   *)
(* the case of C7.)                                                        *)
(***************************************************************************)
C1_StopSemantics ==
    (stopPending /\ pc \in {"Stopped", "Crashed"} /\ raised # "TypeError") =>
       /\ framesAfterStop <= 1
       /\ statsAfterStop = 1

\* What the stop protocol does guarantee: at most one frame and at most one
\* statistics emission after the stop, and exactly one statistics emission
\* when the loop left through line 48.
StopSafety ==
    stopPending =>
       /\ framesAfterStop <= 1
       /\ statsAfterStop <= 1
       /\ (pc = "Stopped") = (statsAfterStop = 1)

(***************************************************************************)
(* C3.  No partial write of the ROI is observable: every rectangle that    *)
(* getCurrentROI returns is a complete rectangle, one that a setROI call   *)
(* (or the constructor) stored as a whole.                                 *)
(***************************************************************************)
C3_NoTornROI == Len(lastGot) = 1 => lastGot[1] \in CompleteROIs

(***************************************************************************)
(* C4.  Stop is eventually honoured: once a stop() has returned while the  *)
(* worker was running, the worker eventually reaches Stopped.              *)
(***************************************************************************)
C4_StopHonoured == stopPending ~> (pc = "Stopped")

(***************************************************************************)
(* C7.  Source-not-ready is not a failure: when the run loop reads the     *)
(* shared buffer and there is no frame, it emits nothing, stays running    *)
(* and goes on to the stop check of the next iteration.                    *)
(***************************************************************************)
C7_NotReadySkips ==
    [][(pc = "Read" /\ sharedImageBuffer = NotReady /\ pc' # pc)
          => /\ pc' = "CheckStop"
             /\ raised' = "none"
             /\ framesAfterStop' = framesAfterStop]_vars

(***************************************************************************)
(* C8.  Invalid ROI is rejected: a setROI call whose rectangle does not    *)
(* fit inside the frame leaves the stored ROI as it was before the call.   *)
(***************************************************************************)
C8_InvalidROIRejected ==
    (Len(roiCall) = 1 /\ ~Fits(roiCall[1].arg)) =>
       roiCall[1].after = roiCall[1].before

(***************************************************************************)
(* C9.  Fail-forward: the run loop leaves Running only through a stop      *)
(* request; no failure raised by the crop or a transform of an iteration   *)
(* ends it.  (The missing frame is the case of C7.)                        *)
(***************************************************************************)
C9_FailForward == pc = "Crashed" => raised = "TypeError"

(***************************************************************************)
(* C11.  The worker never mutates the shared source frame: no step of the  *)
(* run loop, under any flags and settings and in any iteration, changes    *)
(* the buffer's entry for the device; the transforms work on the private   *)
(* copy of the crop taken at the start of the iteration.                   *)
(***************************************************************************)
C11_SourceUntouched ==
    [][pc' # pc => /\ sharedImageBuffer' = sharedImageBuffer
                   /\ InFrame /\ pc # "Read" => currentFrame.base = "none"]_vars

\* In a later iteration the overlay has been drawn straight onto the crop
\* of a colour frame (no transform before it), and the buffer still holds
\* the frame as it was read.
C11_Witness ==
    /\ pc = "Convert"
    /\ processingTime = 20
    /\ currentFrame.ops = <<[op |-> "putText Speed estimation", args |-> <<>>]>>
    /\ currentFrame.px = RawCrop(ColourFrame, RightROI)
    /\ srcRead = <<ColourFrame>>
    /\ sharedImageBuffer = <<ColourFrame>>

(***************************************************************************)
(* C12.  Whole replacement, not merge: when updateImageProcessingFlags(f)  *)
(* returns, each of the seven stored flags equals the field of f,          *)
(* whatever the flags were before, and the stored settings and ROI are     *)
(* the ones the call found; when updateImageProcessingSettings(s)          *)
(* returns, each of the twelve stored settings equals the field of s and   *)
(* the flags and ROI are the ones the call found.                          *)
(***************************************************************************)
C12_WholeReplace ==
    Len(cfgCall) = 1 =>
       LET r == cfgCall[1]
       IN  /\ r.op = "updateImageProcessingFlags" =>
                 /\ \A i \in 1..Len(FlagNames) :
                       r.after.flags[FlagNames[i]] = r.arg[FlagNames[i]]
                 /\ r.after.settings = r.before.settings
                 /\ r.after.roi = r.before.roi
           /\ r.op = "updateImageProcessingSettings" =>
                 /\ \A i \in 1..Len(SettingNames) :
                       r.after.settings[SettingNames[i]] = r.arg[SettingNames[i]]
                 /\ r.after.flags = r.before.flags
                 /\ r.after.roi = r.before.roi

\* A flags update has returned that found every flag on and whose argument
\* turns five of them off.
C12_Witness ==
    /\ Len(cfgCall) = 1
    /\ cfgCall[1].op = "updateImageProcessingFlags"
    /\ cfgCall[1].before.flags = AllOn
    /\ cfgCall[1].arg = FlipSpeed
    /\ imgProcFlags = FlipSpeed

\* The run loop is at one of the transforms of lines 67-115.
InTransform == pc \in {"Gray", "Smooth", "Dilate", "Erode", "Flip", "Canny",
                       "Speed"}

(***************************************************************************)
(* C13.  As claimed: the configuration lock is never held across an        *)
(* image-transform call; whenever the run loop is at a transform step      *)
(* (grayscale, smooth, dilate, erode, flip, edge detection, overlay) the   *)
(* processing mutex is free.                                               *)
(***************************************************************************)
C13_LockFreeInTransform == InTransform => processingMutex = Free

(***************************************************************************)
(* C13, amended.  The configuration lock is held across every              *)
(* image-transform call: whenever the run loop is at a transform step the  *)
(* processing mutex is held by the run loop, and a controller update is    *)
(* before its first write or has returned; it waits until the frame has    *)
(* been emitted.                                                           *)
(***************************************************************************)
C13_LockHeldInTransform ==
    InTransform =>
       /\ processingMutex = Worker
       /\ \A c \in Ctl : cop[c] \in Locking => cstep[c] = 0

\* The run loop is at the flip of a frame while a settings update waits
\* for the mutex.
C13_Witness ==
    /\ pc = "Flip"
    /\ imgProcFlags.flipOn
    /\ processingMutex = Worker
    /\ \E c \in Ctl : cop[c] = "updateImageProcessingSettings" /\ cstep[c] = 0

(***************************************************************************)
(* C14.  Stopped is terminal: once the worker has reached Stopped, no      *)
(* controller operation (start, stop, configuration update) makes it run   *)
(* its loop or emit a frame again.                                         *)
(***************************************************************************)
C14_StoppedTerminal == [][pc = "Stopped" => pc' = "Stopped"]_vars

(***************************************************************************)
(* C15.  Every iteration of the run loop feeds its elapsed-time sample     *)
(* into the rate estimator: when the loop is back at the stop check after  *)
(* an iteration that measured a positive elapsed time, that sample is the  *)
(* last one updateFPS was called with.                                     *)
(***************************************************************************)
C15_SamplePerIteration ==
    (pc = "CheckStop" /\ processingTime > 0) =>
       /\ Len(hist) >= 1
       /\ hist[Len(hist)] = processingTime

\* The exit steps of run(), in the order of lines 46-129.
ExitSteps == <<"clear", "sample", "count", "stats">>

(***************************************************************************)
(* C16.  Exit actions: when the run loop exits on a stop request it        *)
(* clears the stop flag, then calls updateFPS exactly once (with the last  *)
(* elapsed time), then increments nFramesProcessed by exactly one, then    *)
(* emits one statistics snapshot, in that order, and is then Stopped;      *)
(* nFramesProcessed never decreases.                                       *)
(***************************************************************************)
C16_ExitActions ==
    /\ [](LET n == Len(exitLog)
              first == exitLog[1]
          IN  /\ n <= 4
              /\ \A i \in 1..n : exitLog[i].ev = ExitSteps[i]
              /\ n = 0 <=> pc \in {"Idle", "CheckStop", "TestStop", "Timing",
                                   "LockProc", "Crashed"} \/ InFrame
              /\ n = 1 <=> pc = "FinalFPS"
              /\ n = 2 <=> pc = "Count"
              /\ n = 3 <=> pc = "EmitStats"
              /\ n = 4 <=> pc = "Stopped"
              /\ n >= 2 => /\ exitLog[2].samples = first.samples + 1
                           /\ exitLog[2].frames = first.frames
                           /\ hist[Len(hist)] = processingTime
              /\ n >= 3 => /\ exitLog[3].samples = first.samples + 1
                           /\ exitLog[3].frames = first.frames + 1
              /\ n = 4 => exitLog[4] = [exitLog[3] EXCEPT !.ev = "stats"]
              /\ n >= 1 => /\ Len(hist) = exitLog[n].samples
                           /\ statsData.nFramesProcessed = exitLog[n].frames)
    /\ [][/\ (pc = "TestStop" /\ doStop /\ pc' # pc) =>
                (pc' = "FinalFPS" /\ ~doStop')
           /\ statsData'.nFramesProcessed >= statsData.nFramesProcessed]_vars

\* The thread has been started twice and has stopped twice; the second stop
\* was requested while the loop was running, which emitted one more frame.
C16_Witness ==
    /\ pc = "Stopped"
    /\ runs = 2
    /\ stopPending
    /\ framesAfterStop = 1
    /\ Len(hist) = 2
    /\ statsData.nFramesProcessed = 2

\* The OpenCV calls of the three smoothing kinds, by smoothType.
SmoothKinds == <<"blur", "GaussianBlur", "medianBlur">>

\* The steps of the run loop at the seven transforms, in the order of
\* FlagNames.
TransformSteps == <<"Gray", "Smooth", "Dilate", "Erode", "Flip", "Canny", "Speed">>

C18_GrayGuard ==
    [][(pc = "Gray" /\ imgProcFlags.grayscaleOn /\ ~IsEmpty(currentFrame)
          /\ pc' # pc)
         => /\ pc' = "Smooth"
            /\ raised' = "none"
            /\ IF HasChannels(currentFrame) /\ currentFrame.shape[3] \in {3, 4}
               THEN currentFrame' =
                       [Call(currentFrame, "cvtColor COLOR_BGR2GRAY", <<>>)
                           EXCEPT !.shape = SubSeq(@, 1, 2)]
               ELSE currentFrame' = currentFrame]_vars

(***************************************************************************)
(* C19.  Estimator invariant: after every updateFPS call, for any          *)
(* sequence of positive and non-positive samples, the queue length equals  *)
(* the sample counter and lies in 0..N-1, and the running sum is 0; so     *)
(* the queue never holds more than N samples and the eviction of lines     *)
(* 145-146 is never taken, whatever the next sample is.                    *)
(***************************************************************************)
C19_EstimatorInvariant ==
    /\ Len(fps) = sampleNumber
    /\ sampleNumber \in 0..(N - 1)
    /\ fpsSum = Zero
    /\ \A timeElapsed \in Samples :
          LET e == PutSample(Est, timeElapsed)
          IN  /\ Len(e.fps) <= N
              /\ Evict(e) = e

\* One window has been published and the next is one sample short of full,
\* with a non-positive sample among the calls.
C19_Witness ==
    /\ published = 1
    /\ sampleNumber = N - 1
    /\ Len(fps) = N - 1
    /\ \E i \in 1..Len(hist) : hist[i] <= 0
    /\ hist[Len(hist)] > 0

(***************************************************************************)
(* C20.  Lock discipline: no thread ever holds the stop-flag mutex and     *)
(* the processing mutex at the same time (the run loop holds the stop      *)
(* mutex only for the test of lines 45-49, a controller operation holds    *)
(* the one mutex of its `with' block); the holder of a mutex can always    *)
(* take its next step, so no interleaving deadlocks; and while the run     *)
(* loop holds the processing mutex for a frame, a stop() in progress can   *)
(* proceed (or another stop() holds the stop mutex and can).               *)
(***************************************************************************)
C20_LockDiscipline ==
    /\ doStopMutex # Free => doStopMutex # processingMutex
    /\ doStopMutex = Worker <=> pc = "TestStop"
    /\ processingMutex = Worker <=> InFrame
    /\ \A c \in Ctl :
          /\ doStopMutex = c <=> (cop[c] = "stop" /\ cstep[c] = 1)
          /\ processingMutex = c <=> (cop[c] \in Locking /\ cstep[c] >= 1)
          /\ doStopMutex = c => ENABLED StopSet(c)
          /\ processingMutex = c =>
                ENABLED (FlagsWrite(c) \/ SettingsWrite(c) \/ ROIWrite(c))
          /\ (cop[c] = "stop" /\ processingMutex = Worker) =>
                \/ ENABLED (StopLock(c) \/ StopSet(c))
                \/ \E d \in Ctl \ {c} : doStopMutex = d /\ ENABLED StopSet(d)
    /\ doStopMutex = Worker => ENABLED TestStop
    /\ processingMutex = Worker =>
          ENABLED (Read \/ Gray \/ Smooth \/ Dilate \/ Erode \/ Flip \/ Canny
                      \/ Speed \/ Convert \/ Emit)

\* While the run loop holds the processing mutex for a frame, one
\* controller holds the stop mutex inside stop() and the other waits for
\* the processing mutex in setROI.
C20_Witness ==
    /\ pc = "Flip"
    /\ processingMutex = Worker
    /\ \E c, d \in Ctl :
          /\ doStopMutex = c /\ cop[c] = "stop"
          /\ cop[d] = "setROI" /\ cstep[d] = 0

====
